---------------------------- MODULE Spec2Model ----------------------------
(***************************************************************************)
(* Model of the loss-analytics statistical jobs:                           *)
(*   pyjobs/anomaly_detector.py  (AnomalyDetector)                         *)
(*   pyjobs/oee_calculator.py    (OEECalculator)                           *)
(*                                                                         *)
(* Numbers.  Python floats are modelled by exact arithmetic: a quotient is *)
(* kept as a fraction <<n, d>> with d > 0 and compared by cross            *)
(* multiplication, so a comparison against a threshold is decided exactly  *)
(* as the real-number value of the expression decides it.  A nullable      *)
(* column (SQL NULL, Python None) is the empty tuple Null, a present       *)
(* number v is <<v>>.                                                      *)
(*                                                                         *)
(* Each analysis is a separate entry point of the jobs, so each has its    *)
(* own specification (SpecCheck, SpecDetect, SpecAlerts, SpecOee,          *)
(* SpecCache, SpecLoss) over its own variables; the variables of the other *)
(* analyses stay at their idle value.                                      *)
(***************************************************************************)
EXTENDS Integers, Sequences, FiniteSets, TLC

VARIABLES
    ca_args,      \* _check_anomaly: the arguments of the call in progress
    ca_result,    \* _check_anomaly: its result, Pending before it returns
    ca_prev,      \* _check_anomaly: arguments and result of the previous call
    recent_data,  \* detect_oee_anomalies: rows of the recent-window query
    baselines,    \* detect_oee_anomalies: asset_id -> baseline row
    detected,     \* detect_oee_anomalies: what the call returned
    anomalies,    \* generate_alerts: its argument
    alerts,       \* generate_alerts: what the call returned
    oee_req,      \* calculate_oee: arguments and the row fetchone() gives
    oee_result,   \* calculate_oee: what the call returned or raised
    redis,        \* the redis cache: key -> [value, ttl], absent when missing
    lookups,      \* _get_ideal_cycle_time: the concurrent calls, and the
                  \* cache content they started from
    setex_log,    \* every setex call made on redis, in order
    losses,       \* analyze_losses: rows of the losses query
    loss_result,  \* analyze_losses: what the call returned
    pattern_req,  \* detect_pattern_anomalies: rows of the telemetry query
    pattern_result, \* detect_pattern_anomalies: what the call returned
    mv_req,       \* detect_multivariate_anomalies: rows of the telemetry query
    mv_result,    \* detect_multivariate_anomalies: what the call returned
    trend_req,    \* predict_oee_trend: arguments and rows of the daily query
    trend_result  \* predict_oee_trend: what the call returned

vars == <<ca_args, ca_result, ca_prev, recent_data, baselines, detected,
          anomalies, alerts, oee_req, oee_result, redis, lookups, setex_log,
          losses, loss_result, pattern_req, pattern_result, mv_req, mv_result,
          trend_req, trend_result>>

-----------------------------------------------------------------------------
(* Values shared by the analyses *)

Null == <<>>
Some(v) == <<v>>
Pending == [kind |-> "pending"]
Idle == [kind |-> "idle"]

\* the variables of the pattern, multivariate and trend analyses
analysis_vars == <<pattern_req, pattern_result, mv_req, mv_result, trend_req,
                   trend_result>>

\* none of those three analyses is invoked
AnalysesIdle ==
    /\ pattern_req = Idle /\ pattern_result = Idle
    /\ mv_req = Idle /\ mv_result = Idle
    /\ trend_req = Idle /\ trend_result = Idle

Abs(x) == IF x < 0 THEN -x ELSE x
Max(a, b) == IF a >= b THEN a ELSE b

Range(s) == {s[i] : i \in DOMAIN s}

\* All sequences over S of length lo..hi
SeqsBetween(S, lo, hi) == UNION {[1..n -> S] : n \in lo..hi}

-----------------------------------------------------------------------------
(* AnomalyDetector._check_anomaly *)

\* self.z_threshold, in tenths of a standard deviation
z_threshold == [LOW |-> 20, MEDIUM |-> 25, HIGH |-> 30, CRITICAL |-> 35]

Levels == DOMAIN z_threshold

\* sorted(self.z_threshold.items(), key=lambda x: x[1], reverse=True):
\* the levels by threshold, largest first
RECURSIVE SortedByThresholdDesc(_)
SortedByThresholdDesc(S) ==
    IF S = {} THEN <<>>
    ELSE LET top == CHOOSE l \in S : \A m \in S : z_threshold[m] <= z_threshold[l]
         IN  <<top>> \o SortedByThresholdDesc(S \ {top})

\* (mutant of ZAtLeast: a strict comparison, z_score > threshold)
ZAtLeastStrict(z, threshold) == z[1] * 10 > threshold * z[2]

\* z_score >= threshold, z_score = <<n, d>>, threshold in tenths
ZAtLeast(z, threshold) == z[1] * 10 >= threshold * z[2]

\* the for loop: the first level, in that order, whose threshold z_score meets
RECURSIVE FirstLevelMet(_, _)
FirstLevelMet(z, order) ==
    IF order = <<>> THEN Null
    ELSE IF ZAtLeast(z, z_threshold[Head(order)]) THEN Some(Head(order))
    ELSE FirstLevelMet(z, Tail(order))

NoAnomaly == [kind |-> "none"]
Raised(e) == [kind |-> "raised", error |-> e]

\* (mutant of CheckAnomaly: the guard on std is missing, so the division is
\* reached with a zero or a None divisor and raises)
CheckAnomalyUnguarded(value, mean, std, metric, timestamp, asset_id) ==
    IF value = Null \/ mean = Null \/ std = Null THEN Raised("TypeError")
    ELSE IF std = Some(0) THEN Raised("ZeroDivisionError")
    ELSE LET z_score  == <<Abs(value[1] - mean[1]), Abs(std[1])>>
             severity == FirstLevelMet(z_score, SortedByThresholdDesc(Levels))
         IN  IF severity = Null THEN NoAnomaly
             ELSE [kind           |-> "anomaly",
                   timestamp      |-> timestamp,
                   asset_id       |-> asset_id,
                   metric         |-> metric,
                   value          |-> value[1],
                   expected_value |-> mean[1],
                   deviation      |-> z_score,
                   severity       |-> severity[1]]

\* _check_anomaly(value, mean, std, metric, timestamp, asset_id).
\* confidence and description are presentation of the same z_score and are
\* not part of the record here.
CheckAnomaly(value, mean, std, metric, timestamp, asset_id) ==
    IF std = Some(0) \/ std = Null THEN NoAnomaly
    ELSE IF value = Null \/ mean = Null THEN Raised("TypeError")
    ELSE LET z_score  == <<Abs(value[1] - mean[1]), Abs(std[1])>>
             severity == FirstLevelMet(z_score, SortedByThresholdDesc(Levels))
         IN  IF severity = Null THEN NoAnomaly
             ELSE [kind           |-> "anomaly",
                   timestamp      |-> timestamp,
                   asset_id       |-> asset_id,
                   metric         |-> metric,
                   value          |-> value[1],
                   expected_value |-> mean[1],
                   deviation      |-> z_score,
                   severity       |-> severity[1]]

-----------------------------------------------------------------------------
(* SpecCheck: _check_anomaly applied to one sample after another *)

MaxDev == 8
BaseMean == 80

CheckValues == {Some(v) : v \in (BaseMean - MaxDev)..(BaseMean + MaxDev)}
CheckStds == {Null, Some(0), Some(1), Some(2), Some(4)}
CheckArgs == [value : CheckValues, mean : {Some(BaseMean)}, std : CheckStds]

IdleOthersCheck ==
    /\ recent_data = <<>> /\ baselines = <<>> /\ detected = Idle
    /\ anomalies = <<>> /\ alerts = Idle
    /\ oee_req = Idle /\ oee_result = Idle
    /\ redis = <<>> /\ lookups = <<>> /\ setex_log = <<>>
    /\ losses = <<>> /\ loss_result = Idle

InitCheck ==
    /\ AnalysesIdle
    /\ ca_args \in CheckArgs
    /\ ca_result = Pending
    /\ ca_prev = Idle
    /\ IdleOthersCheck

CheckAnomalyCall ==
    /\ UNCHANGED analysis_vars
    /\ ca_result = Pending
    /\ ca_result' = CheckAnomaly(ca_args.value, ca_args.mean, ca_args.std,
                                 "OEE", 1, "a1")
    /\ UNCHANGED <<ca_args, ca_prev>>
    /\ UNCHANGED <<recent_data, baselines, detected, anomalies, alerts, oee_req,
                   oee_result, redis, lookups, setex_log, losses, loss_result>>

NextSample ==
    /\ UNCHANGED analysis_vars
    /\ ca_result # Pending
    /\ ca_prev' = [args |-> ca_args, result |-> ca_result]
    /\ ca_args' \in CheckArgs
    /\ ca_result' = Pending
    /\ UNCHANGED <<recent_data, baselines, detected, anomalies, alerts, oee_req,
                   oee_result, redis, lookups, setex_log, losses, loss_result>>

NextCheck == CheckAnomalyCall \/ NextSample

SpecCheck == InitCheck /\ [][NextCheck]_vars

(* Claim C1 *)

SeverityRank(sev) ==
    CASE sev = "none"     -> 0
      [] sev = "LOW"      -> 1
      [] sev = "MEDIUM"   -> 2
      [] sev = "HIGH"     -> 3
      [] sev = "CRITICAL" -> 4

\* the severity a result carries, "none" when no anomaly was returned
ResultSeverity(r) == IF r.kind = "anomaly" THEN r.severity ELSE "none"

StdUsable(args) == args.std # Null /\ args.std # Some(0)

\* z = |value - mean| / stddev as the fraction <<n, d>>
ZOfArgs(args) == <<Abs(args.value[1] - args.mean[1]), Abs(args.std[1])>>

\* the bands of the claim, on 2 * z = 2n / d
BandOf(z) ==
    IF 2 * z[1] < 4 * z[2] THEN "none"
    ELSE IF 2 * z[1] < 5 * z[2] THEN "LOW"
    ELSE IF 2 * z[1] < 6 * z[2] THEN "MEDIUM"
    ELSE IF 2 * z[1] < 7 * z[2] THEN "HIGH"
    ELSE "CRITICAL"

\* C1: with stddev defined and non-zero, _check_anomaly returns no anomaly for
\* z < 2.0, LOW for 2.0 <= z < 2.5, MEDIUM for 2.5 <= z < 3.0, HIGH for
\* 3.0 <= z < 3.5 and CRITICAL for z >= 3.5 (the anomaly carrying that z as its
\* deviation); and of two calls the one with the larger z never gets the lower
\* severity rank.
C1_SeverityBands ==
    /\ (ca_result # Pending /\ StdUsable(ca_args)) =>
          /\ ca_result.kind \in {"none", "anomaly"}
          /\ ResultSeverity(ca_result) = BandOf(ZOfArgs(ca_args))
          /\ ca_result.kind = "anomaly" => ca_result.deviation = ZOfArgs(ca_args)
    /\ (/\ ca_result # Pending /\ StdUsable(ca_args)
        /\ ca_prev # Idle /\ StdUsable(ca_prev.args)) =>
          LET zp == ZOfArgs(ca_prev.args)
              zc == ZOfArgs(ca_args)
          IN  zp[1] * zc[2] <= zc[1] * zp[2] =>
                SeverityRank(ResultSeverity(ca_prev.result))
                    <= SeverityRank(ResultSeverity(ca_result))

\* a MEDIUM result at exactly z = 2.5 after a LOW one at exactly z = 2.0
C1_Witness ==
    /\ ca_result # Pending /\ ca_result.kind = "anomaly"
    /\ ca_result.severity = "MEDIUM" /\ ca_result.deviation = <<5, 2>>
    /\ ca_prev # Idle /\ ca_prev.result.kind = "anomaly"
    /\ ca_prev.result.severity = "LOW" /\ ca_prev.result.deviation = <<8, 4>>

-----------------------------------------------------------------------------
(* AnomalyDetector.detect_oee_anomalies *)

\* the four checks of a data point, in the order the code makes them
MetricChecks ==
    << [metric |-> "OEE",          col |-> "oee",
        avg |-> "avg_oee",          std |-> "std_oee"],
       [metric |-> "Availability", col |-> "availability",
        avg |-> "avg_availability", std |-> "std_availability"],
       [metric |-> "Performance",  col |-> "performance",
        avg |-> "avg_performance",  std |-> "std_performance"],
       [metric |-> "Quality",      col |-> "quality",
        avg |-> "avg_quality",      std |-> "std_quality"] >>

\* the checks k..4 of one data point against its baseline, appended to acc;
\* an exception of _check_anomaly leaves the loop
RECURSIVE CheckPoint(_, _, _, _)
CheckPoint(data_point, baseline, k, acc) ==
    IF k > Len(MetricChecks) THEN [kind |-> "ok", anomalies |-> acc]
    ELSE LET c == MetricChecks[k]
             a == CheckAnomaly(data_point[c.col], baseline[c.avg], baseline[c.std],
                               c.metric, data_point.timestamp, data_point.asset_id)
         IN  IF a.kind = "raised" THEN a
             ELSE CheckPoint(data_point, baseline, k + 1,
                             IF a.kind = "anomaly" THEN Append(acc, a) ELSE acc)

\* for data_point in recent_data: ... ; return anomalies
RECURSIVE DetectFrom(_, _, _, _)
DetectFrom(recent, base, i, acc) ==
    IF i > Len(recent) THEN [kind |-> "ok", anomalies |-> acc]
    ELSE IF recent[i].asset_id \notin DOMAIN base
         THEN DetectFrom(recent, base, i + 1, acc)
    ELSE LET r == CheckPoint(recent[i], base[recent[i].asset_id], 1, acc)
         IN  IF r.kind = "raised" THEN r
             ELSE DetectFrom(recent, base, i + 1, r.anomalies)

DetectOeeAnomaliesOf(recent, base) == DetectFrom(recent, base, 1, <<>>)

-----------------------------------------------------------------------------
(* SpecDetect: one call of detect_oee_anomalies on the rows of its two queries *)

MaxPoints == 2

Assets == {"a1", "a2"}

\* oee, availability, performance, quality of a recent row
PointValues ==
    { [oee |-> Some(80), availability |-> Some(82), performance |-> Some(78),
       quality |-> Some(80)],
      [oee |-> Some(95), availability |-> Some(80), performance |-> Some(80),
       quality |-> Some(93)],
      [oee |-> Some(60), availability |-> Some(62), performance |-> Some(97),
       quality |-> Some(68)],
      [oee |-> Null, availability |-> Some(99), performance |-> Null,
       quality |-> Some(80)] }

\* rows of the recent query; ORDER BY timestamp: row i carries timestamp i
RecentRows(n) ==
    { [i \in 1..n |->
          [asset_id     |-> pick[i].asset,
           timestamp    |-> i,
           oee          |-> pick[i].v.oee,
           availability |-> pick[i].v.availability,
           performance  |-> pick[i].v.performance,
           quality      |-> pick[i].v.quality]]
      : pick \in [1..n -> [asset : Assets, v : PointValues]] }

\* AVG and STDDEV of one metric over the historical rows of an asset: both
\* NULL when every value is NULL, STDDEV NULL over a single value and 0 over
\* equal values
BaselineStats ==
    { [avg |-> Null, std |-> Null],
      [avg |-> Some(BaseMean), std |-> Null],
      [avg |-> Some(BaseMean), std |-> Some(0)],
      [avg |-> Some(BaseMean), std |-> Some(5)] }

BaselineRow(asset, o, a, p, q) ==
    [asset_id |-> asset,
     avg_oee |-> o.avg,          std_oee |-> o.std,
     avg_availability |-> a.avg, std_availability |-> a.std,
     avg_performance |-> p.avg,  std_performance |-> p.std,
     avg_quality |-> q.avg,      std_quality |-> q.std]

\* {row['asset_id']: row for row in cursor.fetchall()}: a1 with any baseline
\* or none, a2 with a full baseline or none
BaselineDicts ==
    LET full  == [avg |-> Some(BaseMean), std |-> Some(5)]
        rows1 == {BaselineRow("a1", o, a, p, q) :
                    o \in BaselineStats, a \in BaselineStats,
                    p \in BaselineStats, q \in BaselineStats}
        rows2 == {BaselineRow("a2", full, full, full, full)}
        opt1  == {<<>>} \cup {<<r>> : r \in rows1}
        opt2  == {<<>>} \cup {<<r>> : r \in rows2}
    IN  { [a \in {r.asset_id : r \in Range(o1 \o o2)} |->
              CHOOSE r \in Range(o1 \o o2) : r.asset_id = a]
          : o1 \in opt1, o2 \in opt2 }

InitDetect ==
    /\ AnalysesIdle
    /\ recent_data \in UNION {RecentRows(n) : n \in 0..MaxPoints}
    /\ baselines \in BaselineDicts
    /\ detected = Pending
    /\ ca_args = Idle /\ ca_result = Idle /\ ca_prev = Idle
    /\ anomalies = <<>> /\ alerts = Idle
    /\ oee_req = Idle /\ oee_result = Idle
    /\ redis = <<>> /\ lookups = <<>> /\ setex_log = <<>>
    /\ losses = <<>> /\ loss_result = Idle

DetectOeeAnomalies ==
    /\ UNCHANGED analysis_vars
    /\ detected = Pending
    /\ detected' = DetectOeeAnomaliesOf(recent_data, baselines)
    /\ UNCHANGED <<recent_data, baselines>>
    /\ UNCHANGED <<ca_args, ca_result, ca_prev, anomalies, alerts, oee_req,
                   oee_result, redis, lookups, setex_log, losses, loss_result>>

NextDetect == DetectOeeAnomalies

SpecDetect == InitDetect /\ [][NextDetect]_vars

(* Claim C10 *)

StdUnusable(std) == std = Null \/ std = Some(0)

\* the anomalies returned for row i and a metric
AnomaliesFor(i, metric) ==
    {k \in DOMAIN detected.anomalies :
        /\ detected.anomalies[k].timestamp = i
        /\ detected.anomalies[k].metric = metric}

\* C10: a metric whose baseline standard deviation is zero or NULL yields no
\* anomaly, whatever the value and the mean, and raises nothing: the call
\* raises only when some checked metric has a usable standard deviation; and a
\* recent row whose asset has no baseline row yields no anomaly for any of its
\* four metrics.
C10_GuardedStd ==
    /\ detected.kind = "ok" =>
          \A i \in DOMAIN recent_data : \A k \in DOMAIN MetricChecks :
              LET p == recent_data[i]
                  c == MetricChecks[k]
              IN  /\ p.asset_id \notin DOMAIN baselines
                       => AnomaliesFor(i, c.metric) = {}
                  /\ (/\ p.asset_id \in DOMAIN baselines
                      /\ StdUnusable(baselines[p.asset_id][c.std]))
                       => AnomaliesFor(i, c.metric) = {}
    /\ detected.kind = "raised" =>
          \E i \in DOMAIN recent_data : \E k \in DOMAIN MetricChecks :
              LET p == recent_data[i]
                  c == MetricChecks[k]
              IN  /\ p.asset_id \in DOMAIN baselines
                  /\ ~StdUnusable(baselines[p.asset_id][c.std])
                  /\ (p[c.col] = Null \/ baselines[p.asset_id][c.avg] = Null)

\* the call returned; a row of a1 deviates on every metric and has a NULL
\* value, a1's baseline has a NULL and a zero standard deviation among its
\* unusable ones, a row of a2 has no baseline, and an anomaly was still found
C10_Witness ==
    /\ detected.kind = "ok"
    /\ Len(detected.anomalies) > 0
    /\ "a1" \in DOMAIN baselines /\ "a2" \notin DOMAIN baselines
    /\ baselines["a1"].std_oee = Null /\ baselines["a1"].avg_oee = Null
    /\ baselines["a1"].std_performance = Some(0)
    /\ \E i \in DOMAIN recent_data :
          recent_data[i].asset_id = "a1" /\ recent_data[i].oee = Null
    /\ \E i \in DOMAIN recent_data :
          recent_data[i].asset_id = "a2" /\ recent_data[i].oee = Some(60)

-----------------------------------------------------------------------------
(* AnomalyDetector.generate_alerts and _get_recommended_action *)

\* datetime.isoformat() of the instant t seconds into the run's minute
IsoFormat(t) == "2026-01-01T00:00:0" \o ToString(t)

\* the code points of a severity label: str comparison is by code point
CodePoints(label) ==
    CASE label = "LOW"      -> <<76, 79, 87>>
      [] label = "MEDIUM"   -> <<77, 69, 68, 73, 85, 77>>
      [] label = "HIGH"     -> <<72, 73, 71, 72>>
      [] label = "CRITICAL" -> <<67, 82, 73, 84, 73, 67, 65, 76>>

\* u < v for code point sequences (Python's str.__lt__)
RECURSIVE LexLess(_, _)
LexLess(u, v) ==
    IF v = <<>> THEN FALSE
    ELSE IF u = <<>> THEN TRUE
    ELSE IF Head(u) # Head(v) THEN Head(u) < Head(v)
    ELSE LexLess(Tail(u), Tail(v))

\* key(x) < key(y) for key=lambda x: x['severity']
SeverityKeyLess(x, y) == LexLess(CodePoints(x.severity), CodePoints(y.severity))

\* one step of the stable descending sort: x goes before the first element of
\* acc whose key is smaller than its own
RECURSIVE InsertDesc(_, _)
InsertDesc(x, acc) ==
    IF acc = <<>> THEN <<x>>
    ELSE IF SeverityKeyLess(Head(acc), x) THEN <<x>> \o acc
    ELSE <<Head(acc)>> \o InsertDesc(x, Tail(acc))

\* sorted(alerts, key=lambda x: x['severity'], reverse=True)
RECURSIVE SortedBySeverityDesc(_)
SortedBySeverityDesc(as) ==
    IF as = <<>> THEN <<>>
    ELSE InsertDesc(as[Len(as)], SortedBySeverityDesc(SubSeq(as, 1, Len(as) - 1)))

\* the actions table of _get_recommended_action
actions ==
    [OEE          |-> [HIGH     |-> "Check production line immediately",
                       CRITICAL |-> "Stop production and investigate"],
     Availability |-> [HIGH     |-> "Check for equipment failures",
                       CRITICAL |-> "Initiate maintenance protocol"],
     Performance  |-> [HIGH     |-> "Review cycle times and minor stops",
                       CRITICAL |-> "Check for major speed losses"],
     Quality      |-> [HIGH     |-> "Increase quality inspections",
                       CRITICAL |-> "Quarantine recent production"]]

\* dict.get(key, default)
DictGet(d, key, default) == IF key \in DOMAIN d THEN d[key] ELSE default

\* (mutant of GetRecommendedAction: the metric is ignored, OEE's row is used)
GetRecommendedActionOee(anomaly) ==
    DictGet(actions["OEE"], anomaly.severity, "Monitor situation closely")

\* actions.get(anomaly.metric, {}).get(anomaly.severity, 'Monitor ...')
GetRecommendedAction(anomaly) ==
    DictGet(DictGet(actions, anomaly.metric, <<>>), anomaly.severity,
            "Monitor situation closely")

\* the keys of grouped, in the order the loop first inserts them
RECURSIVE GroupKeys(_)
GroupKeys(as) ==
    IF as = <<>> THEN <<>>
    ELSE LET front == GroupKeys(SubSeq(as, 1, Len(as) - 1))
             key   == <<as[Len(as)].asset_id, as[Len(as)].severity>>
         IN  IF key \in Range(front) THEN front ELSE Append(front, key)

\* grouped[key]: the anomalies of that key, in input order
GroupOf(as, key) ==
    SelectSeq(as, LAMBDA a : <<a.asset_id, a.severity>> = key)

RECURSIVE MaxOf(_)
MaxOf(S) == LET x == CHOOSE y \in S : TRUE
            IN  IF S = {x} THEN x ELSE Max(x, MaxOf(S \ {x}))

\* (mutant of IsMultiple: more than three members are needed)
IsMultipleOverThree(group) == Len(group) > 3

\* if len(group) >= 3
IsMultiple(group) == Len(group) >= 3

\* elif severity in ['HIGH', 'CRITICAL']
IsSingleSeverity(severity) == severity \in {"HIGH", "CRITICAL"}

MultipleAlert(asset_id, severity, group) ==
    [asset_id  |-> asset_id,
     severity  |-> severity,
     type      |-> "MULTIPLE_ANOMALIES",
     count     |-> Len(group),
     metrics   |-> {group[i].metric : i \in DOMAIN group},
     action    |-> "Immediate investigation required",
     timestamp |-> IsoFormat(MaxOf({group[i].timestamp : i \in DOMAIN group}))]

SingleAlert(asset_id, severity, anomaly) ==
    [asset_id  |-> asset_id,
     severity  |-> severity,
     type      |-> "SINGLE_ANOMALY",
     metric    |-> anomaly.metric,
     value     |-> anomaly.value,
     expected  |-> anomaly.expected_value,
     action    |-> GetRecommendedAction(anomaly),
     timestamp |-> IsoFormat(anomaly.timestamp)]

\* the alerts one group appends
GroupAlerts(key, group) ==
    IF IsMultiple(group) THEN <<MultipleAlert(key[1], key[2], group)>>
    ELSE IF IsSingleSeverity(key[2])
         THEN [i \in DOMAIN group |-> SingleAlert(key[1], key[2], group[i])]
    ELSE <<>>

\* for (asset_id, severity), group in grouped.items(): ...
RECURSIVE AlertsOfGroups(_, _)
AlertsOfGroups(as, keys) ==
    IF keys = <<>> THEN <<>>
    ELSE GroupAlerts(Head(keys), GroupOf(as, Head(keys)))
            \o AlertsOfGroups(as, Tail(keys))

GenerateAlertsOf(as) == SortedBySeverityDesc(AlertsOfGroups(as, GroupKeys(as)))

-----------------------------------------------------------------------------
(* SpecAlerts: one call of generate_alerts on a list of anomalies *)

MaxAnomalies == 4

MakeAnomaly(asset, sev, metric, ts) ==
    [kind |-> "anomaly", timestamp |-> ts, asset_id |-> asset, metric |-> metric,
     value |-> 95, expected_value |-> BaseMean, deviation |-> <<15, 5>>,
     severity |-> sev]

\* the anomalies a call may be given: a1 at every severity on two metrics (the
\* later timestamp on OEE), and anomalies of other metrics and of asset a2
AnomalyPool ==
    {MakeAnomaly("a1", sev, "OEE", 2) : sev \in Levels}
      \cup {MakeAnomaly("a1", sev, "Quality", 1) : sev \in Levels}
      \cup {MakeAnomaly("a1", "HIGH", "Temperature", 3),
            MakeAnomaly("a2", "HIGH", "OEE", 1),
            MakeAnomaly("a2", "HIGH", "Availability", 3),
            MakeAnomaly("a2", "HIGH", "Performance", 2),
            MakeAnomaly("a2", "CRITICAL", "Availability", 2),
            MakeAnomaly("a2", "CRITICAL", "Performance", 1)}

InitAlerts ==
    /\ AnalysesIdle
    /\ anomalies \in SeqsBetween(AnomalyPool, 0, MaxAnomalies)
    /\ alerts = Pending
    /\ ca_args = Idle /\ ca_result = Idle /\ ca_prev = Idle
    /\ recent_data = <<>> /\ baselines = <<>> /\ detected = Idle
    /\ oee_req = Idle /\ oee_result = Idle
    /\ redis = <<>> /\ lookups = <<>> /\ setex_log = <<>>
    /\ losses = <<>> /\ loss_result = Idle

GenerateAlerts ==
    /\ UNCHANGED analysis_vars
    /\ alerts = Pending
    /\ alerts' = [kind |-> "ok", list |-> GenerateAlertsOf(anomalies)]
    /\ UNCHANGED anomalies
    /\ UNCHANGED <<ca_args, ca_result, ca_prev, recent_data, baselines, detected,
                   oee_req, oee_result, redis, lookups, setex_log, losses,
                   loss_result>>

NextAlerts == GenerateAlerts

SpecAlerts == InitAlerts /\ [][NextAlerts]_vars

(* Claims C7, C8, C9 *)

\* the (asset_id, severity) pairs present in the input
InputKeys == {<<anomalies[i].asset_id, anomalies[i].severity>> : i \in DOMAIN anomalies}

\* positions of the input anomalies of a group
Members(key) ==
    {i \in DOMAIN anomalies :
        anomalies[i].asset_id = key[1] /\ anomalies[i].severity = key[2]}

\* positions of the returned alerts of a group and a type
AlertsFor(key, type) ==
    {k \in DOMAIN alerts.list :
        /\ alerts.list[k].asset_id = key[1]
        /\ alerts.list[k].severity = key[2]
        /\ alerts.list[k].type = type}

LatestTimestamp(key) ==
    CHOOSE t \in {anomalies[i].timestamp : i \in Members(key)} :
        \A i \in Members(key) : anomalies[i].timestamp <= t

\* C7: each (asset_id, severity) group of at least 3 anomalies, of any
\* severity, yields exactly one MULTIPLE_ANOMALIES alert, with count the group
\* size, metrics the distinct metrics of the group, timestamp the latest of the
\* group and action 'Immediate investigation required', and yields no
\* SINGLE_ANOMALY alert.
C7_MultipleAlert ==
    alerts.kind = "ok" =>
        \A key \in InputKeys :
            Cardinality(Members(key)) >= 3 =>
                /\ Cardinality(AlertsFor(key, "MULTIPLE_ANOMALIES")) = 1
                /\ \A k \in AlertsFor(key, "MULTIPLE_ANOMALIES") :
                      /\ alerts.list[k].count = Cardinality(Members(key))
                      /\ alerts.list[k].metrics =
                            {anomalies[i].metric : i \in Members(key)}
                      /\ alerts.list[k].timestamp = IsoFormat(LatestTimestamp(key))
                      /\ alerts.list[k].action = "Immediate investigation required"
                /\ AlertsFor(key, "SINGLE_ANOMALY") = {}

\* a LOW group of three on two metrics whose latest member is not its last,
\* beside a group that yields a single alert
C7_Witness ==
    /\ alerts.kind = "ok"
    /\ Len(alerts.list) = 2
    /\ Len(anomalies) = 4
    /\ Cardinality(Members(<<"a1", "LOW">>)) = 3
    /\ anomalies[1].metric = "OEE" /\ anomalies[1].severity = "LOW"
    /\ anomalies[4].metric = "Quality" /\ anomalies[4].severity = "LOW"
    /\ AlertsFor(<<"a2", "HIGH">>, "SINGLE_ANOMALY") # {}

\* the action the table gives for a metric at HIGH or CRITICAL
TableAction(metric, severity) ==
    IF metric \in DOMAIN actions THEN actions[metric][severity]
    ELSE "Monitor situation closely"

\* the SINGLE_ANOMALY alerts of a group that describe input anomaly i
AlertsDescribing(key, i) ==
    {k \in AlertsFor(key, "SINGLE_ANOMALY") :
        /\ alerts.list[k].metric = anomalies[i].metric
        /\ alerts.list[k].value = anomalies[i].value
        /\ alerts.list[k].expected = anomalies[i].expected_value
        /\ alerts.list[k].timestamp = IsoFormat(anomalies[i].timestamp)
        /\ alerts.list[k].action = TableAction(anomalies[i].metric, key[2])}

\* the members of a group equal to member i
SameAs(key, i) == {j \in Members(key) : anomalies[j] = anomalies[i]}

\* C8: a group of 1 or 2 anomalies yields, when its severity is HIGH or
\* CRITICAL, exactly one SINGLE_ANOMALY alert per member (and nothing else),
\* with the action of the (metric, severity) table or 'Monitor situation
\* closely' for a metric the table lacks; when its severity is LOW or MEDIUM
\* it yields no alert.
C8_SingleAlerts ==
    alerts.kind = "ok" =>
        \A key \in InputKeys :
            Cardinality(Members(key)) <= 2 =>
                /\ AlertsFor(key, "MULTIPLE_ANOMALIES") = {}
                /\ key[2] \in {"HIGH", "CRITICAL"} =>
                      /\ Cardinality(AlertsFor(key, "SINGLE_ANOMALY"))
                            = Cardinality(Members(key))
                      /\ \A i \in Members(key) :
                            Cardinality(AlertsDescribing(key, i))
                                = Cardinality(SameAs(key, i))
                /\ key[2] \in {"LOW", "MEDIUM"} =>
                      AlertsFor(key, "SINGLE_ANOMALY") = {}

\* a HIGH pair with a metric outside the table, a CRITICAL single of another
\* asset and a MEDIUM single that yields nothing
C8_Witness ==
    /\ alerts.kind = "ok"
    /\ Len(anomalies) = 4
    /\ Len(alerts.list) = 3
    /\ Cardinality(Members(<<"a1", "HIGH">>)) = 2
    /\ \E i \in Members(<<"a1", "HIGH">>) : anomalies[i].metric = "Temperature"
    /\ \E k \in DOMAIN alerts.list : alerts.list[k].action = "Monitor situation closely"
    /\ \E k \in DOMAIN alerts.list : alerts.list[k].action = "Initiate maintenance protocol"
    /\ Cardinality(Members(<<"a1", "MEDIUM">>)) = 1

\* C9: the returned list is ordered by the rank LOW < MEDIUM < HIGH <
\* CRITICAL, most severe first: no alert is preceded by one of strictly lower
\* rank.
C9_OrderedByRank ==
    alerts.kind = "ok" =>
        \A i, j \in DOMAIN alerts.list :
            i < j => SeverityRank(alerts.list[i].severity)
                        >= SeverityRank(alerts.list[j].severity)

-----------------------------------------------------------------------------
(* OEECalculator._get_ideal_cycle_time and the redis cache it uses *)

\* A cycle time is held in tenths of a minute: 1.0 is 10.

\* float(text) for the texts a cache entry may hold
ParseFloat(text) ==
    CASE text = "1.0" -> 10
      [] text = "0.5" -> 5
      [] text = "2.5" -> 25
      [] text = "2"   -> 20
      [] text = "0"   -> 0

\* str(x) of a float, Python's shortest repr
FloatStr(x) ==
    CASE x = 10 -> "1.0"
      [] x = 5  -> "0.5"
      [] x = 25 -> "2.5"
      [] x = 20 -> "2.0"
      [] x = 0  -> "0.0"

CacheTexts == {"1.0", "0.5", "2.5", "2", "0"}

\* ideal_time = 1.0
DefaultIdealTime == 10

\* the expiry given to setex, in seconds
CacheTtl == 3600

\* f"ideal_cycle_time:{asset_id}"
CacheKey(asset_id) == "ideal_cycle_time:" \o asset_id

\* redis_client.get(key): the text, or None when the key is missing
RedisGet(r, key) == IF key \in DOMAIN r THEN Some(r[key].value) ELSE Null

\* redis_client.setex(key, ttl, value)
RedisSetex(r, key, ttl, value) ==
    [k \in DOMAIN r \cup {key} |->
        IF k = key THEN [value |-> value, ttl |-> ttl] ELSE r[k]]

\* if cached_value: a missing key and an empty text are both false
IsCacheHit(cached_value) == cached_value # Null /\ cached_value # Some("")

\* return float(cached_value)
HitValue(cached_value) == ParseFloat(cached_value[1])

\* (mutant of MissWrite: the write stores the text without an expiry)
MissWriteNoExpiry(r, asset_id) ==
    RedisSetex(r, CacheKey(asset_id), 0, FloatStr(DefaultIdealTime))

\* self.redis_client.setex(cache_key, 3600, str(ideal_time))
MissWrite(r, asset_id) ==
    RedisSetex(r, CacheKey(asset_id), CacheTtl, FloatStr(DefaultIdealTime))

\* the setex call as it is logged
SetexCall(r, asset_id, by) ==
    LET after == MissWrite(r, asset_id)
    IN  [key   |-> CacheKey(asset_id),
         ttl   |-> after[CacheKey(asset_id)].ttl,
         value |-> after[CacheKey(asset_id)].value,
         by    |-> by]

\* one whole call, uninterrupted: the value returned and the cache after it
GetIdealCycleTimeOf(r, asset_id) ==
    LET cached_value == RedisGet(r, CacheKey(asset_id))
    IN  IF IsCacheHit(cached_value)
        THEN [ret |-> HitValue(cached_value), redis |-> r, wrote |-> FALSE]
        ELSE [ret |-> DefaultIdealTime, redis |-> MissWrite(r, asset_id),
              wrote |-> TRUE]

\* the cache contents a run may start from: a1's entry missing or holding a
\* configured value, a2's entry missing or holding the default
CacheContents ==
    LET e1 == {<<>>} \cup {<<[key |-> CacheKey("a1"), value |-> t, ttl |-> CacheTtl]>>
                            : t \in CacheTexts}
        e2 == {<<>>, <<[key |-> CacheKey("a2"), value |-> "1.0", ttl |-> CacheTtl]>>}
    IN  { [k \in {e.key : e \in Range(x1 \o x2)} |->
              LET e == CHOOSE e \in Range(x1 \o x2) : e.key = k
              IN  [value |-> e.value, ttl |-> e.ttl]]
          : x1 \in e1, x2 \in e2 }

-----------------------------------------------------------------------------
(* SpecCache: concurrent calls of _get_ideal_cycle_time.  A call is two     *)
(* round trips to redis, the get and (on a miss) the setex; each is atomic  *)
(* at the server and other calls may run between them.                      *)

NumLookups == 3

Procs == 1..NumLookups

InitCache ==
    /\ AnalysesIdle
    /\ redis \in CacheContents
    /\ \E who \in [Procs -> Assets] :
          lookups = [start |-> redis,
                     calls |-> [p \in Procs |->
                                  [asset_id |-> who[p], pc |-> "get",
                                   cached_value |-> Null, ret |-> Null]]]
    /\ setex_log = <<>>
    /\ ca_args = Idle /\ ca_result = Idle /\ ca_prev = Idle
    /\ recent_data = <<>> /\ baselines = <<>> /\ detected = Idle
    /\ anomalies = <<>> /\ alerts = Idle
    /\ oee_req = Idle /\ oee_result = Idle
    /\ losses = <<>> /\ loss_result = Idle

\* cached_value = self.redis_client.get(cache_key); a hit returns at once
LookupGet(p) ==
    /\ UNCHANGED analysis_vars
    /\ lookups.calls[p].pc = "get"
    /\ LET c  == lookups.calls[p]
           cv == RedisGet(redis, CacheKey(c.asset_id))
       IN  lookups' = [lookups EXCEPT !.calls[p] =
                          IF IsCacheHit(cv)
                          THEN [c EXCEPT !.pc = "done", !.cached_value = cv,
                                         !.ret = Some(HitValue(cv))]
                          ELSE [c EXCEPT !.pc = "setex", !.cached_value = cv]]
    /\ UNCHANGED <<redis, setex_log>>
    /\ UNCHANGED <<ca_args, ca_result, ca_prev, recent_data, baselines, detected,
                   anomalies, alerts, oee_req, oee_result, losses, loss_result>>

\* self.redis_client.setex(...); return ideal_time
LookupSetex(p) ==
    /\ UNCHANGED analysis_vars
    /\ lookups.calls[p].pc = "setex"
    /\ redis' = MissWrite(redis, lookups.calls[p].asset_id)
    /\ setex_log' = Append(setex_log, SetexCall(redis, lookups.calls[p].asset_id, p))
    /\ lookups' = [lookups EXCEPT !.calls[p].pc = "done",
                                  !.calls[p].ret = Some(DefaultIdealTime)]
    /\ UNCHANGED <<ca_args, ca_result, ca_prev, recent_data, baselines, detected,
                   anomalies, alerts, oee_req, oee_result, losses, loss_result>>

NextCache == \E p \in Procs : LookupGet(p) \/ LookupSetex(p)

SpecCache == InitCache /\ [][NextCache]_vars

(* Claim C4 *)

StartedMissing(asset_id) == CacheKey(asset_id) \notin DOMAIN lookups.start

AllLookupsDone == \A p \in Procs : lookups.calls[p].pc = "done"

LookedUp == {lookups.calls[p].asset_id : p \in Procs}

\* C4: under every interleaving, a call for an asset whose entry was missing
\* at the start returns 1.0; every write is setex(ideal_cycle_time:<asset_id>,
\* 3600, "1.0") for the asset of the call that makes it; once all calls have
\* returned, the cache holds what one call alone per asset would have left;
\* and a call whose get hits returns the number the entry held and writes
\* nothing.
C4_BenignRace ==
    /\ \A p \in Procs :
          (lookups.calls[p].pc = "done" /\ StartedMissing(lookups.calls[p].asset_id))
             => lookups.calls[p].ret = Some(10)
    /\ \A k \in DOMAIN setex_log :
          /\ setex_log[k].key = "ideal_cycle_time:" \o lookups.calls[setex_log[k].by].asset_id
          /\ setex_log[k].ttl = 3600
          /\ setex_log[k].value = "1.0"
    /\ AllLookupsDone =>
          /\ DOMAIN redis = DOMAIN lookups.start \cup {CacheKey(a) : a \in LookedUp}
          /\ \A a \in LookedUp :
                redis[CacheKey(a)]
                   = GetIdealCycleTimeOf(lookups.start, a).redis[CacheKey(a)]
          /\ \A k \in DOMAIN lookups.start :
                (\A a \in LookedUp : CacheKey(a) # k) => redis[k] = lookups.start[k]
    /\ \A p \in Procs :
          (lookups.calls[p].pc = "done" /\ lookups.calls[p].cached_value # Null) =>
             /\ lookups.calls[p].ret =
                   Some(ParseFloat(lookups.calls[p].cached_value[1]))
             /\ \A k \in DOMAIN setex_log : setex_log[k].by # p

\* all calls are for a1, whose entry was missing: two of them raced and wrote,
\* the third hit what they wrote
C4_Witness ==
    /\ AllLookupsDone
    /\ StartedMissing("a1")
    /\ LookedUp = {"a1"}
    /\ Len(setex_log) = 2
    /\ \E p \in Procs : lookups.calls[p].cached_value = Some("1.0")

-----------------------------------------------------------------------------
(* OEECalculator.calculate_oee *)

\* Fractions <<n, d>>, d > 0, kept in lowest terms
RECURSIVE Gcd(_, _)
Gcd(a, b) == IF b = 0 THEN a ELSE Gcd(b, a % b)

\* n / d in lowest terms, for d > 0
Frac(n, d) == LET g == Gcd(Abs(n), d) IN <<n \div g, d \div g>>

FZero == <<0, 1>>
FInt(k) == <<k, 1>>
FLess(x, y) == x[1] * y[2] < y[1] * x[2]
FEq(x, y) == x[1] * y[2] = y[1] * x[2]
FMul(x, y) ==
    LET g1 == Gcd(Abs(x[1]), y[2])
        g2 == Gcd(Abs(y[1]), x[2])
    IN  Frac((x[1] \div g1) * (y[1] \div g2), (x[2] \div g2) * (y[2] \div g1))
\* x / k for an integer k > 0
FDivInt(x, k) == LET g == Gcd(Abs(x[1]), k) IN Frac(x[1] \div g, x[2] * (k \div g))

\* max(a, b) and min(a, b) of Python: the first argument unless the second is
\* strictly larger (smaller)
FMax(a, b) == IF FLess(a, b) THEN b ELSE a
FMin(a, b) == IF FLess(b, a) THEN b ELSE a

\* (mutant of Cap: only the upper cap is applied)
CapUpperOnly(x) == FMin(FInt(100), x)

\* min(100, max(0, x))
Cap(x) == FMin(FInt(100), FMax(FInt(0), x))

\* x or 0, for a nullable number
OrZero(x) == IF x = Null \/ x = Some(0) THEN 0 ELSE x[1]

\* (end_time - start_time).total_seconds() / 60, times in seconds
PlannedTime(start_time, end_time) == Frac(end_time - start_time, 60)

\* (runtime / planned_time * 100) if planned_time > 0 else 0
AvailabilityOf(runtime, planned_time) ==
    IF FLess(FZero, planned_time)
    THEN Frac(runtime * 100 * planned_time[2], planned_time[1])
    ELSE FZero

\* ((total_count * ideal_cycle_time) / runtime * 100) if runtime > 0 else 0,
\* ideal_cycle_time in tenths
PerformanceOf(total_count, ideal_cycle_time, runtime) ==
    IF runtime > 0
    THEN Frac(total_count * ideal_cycle_time * 100, runtime * 10)
    ELSE FZero

\* (good_count / total_count * 100) if total_count > 0 else 0
QualityOf(good_count, total_count) ==
    IF total_count > 0 THEN Frac(good_count * 100, total_count) ELSE FZero

\* (availability * performance * quality) / 10000
OeeOf(availability, performance, quality) ==
    FDivInt(FMul(FMul(availability, performance), quality), 10000)

\* (mutant of HasRow: a row whose summed runtime is NULL or zero counts as no
\* data)
HasRowWithRuntime(data) == data # Null /\ OrZero(data[1].total_runtime) # 0

\* not (not data): fetchone() gave a row
HasRow(data) == data # Null

\* calculate_oee(asset_id, start_time, end_time) with fetchone() giving data
\* and the cache holding r: what is returned or raised, and the cache after.
\* The record's timestamp (the time of the call) is left out.
CalculateOeeOf(asset_id, start_time, end_time, data, r) ==
    IF ~HasRow(data)
    THEN [result |-> [kind |-> "raised", error |-> "ValueError",
                      message |-> "No data found for asset " \o asset_id],
          redis  |-> r, wrote |-> FALSE]
    ELSE LET row          == data[1]
             planned_time == PlannedTime(start_time, end_time)
             runtime      == OrZero(row.total_runtime)
             downtime     == OrZero(row.total_downtime)
             good_count   == OrZero(row.total_good)
             reject_count == OrZero(row.total_reject)
             total_count  == good_count + reject_count
             availability == AvailabilityOf(runtime, planned_time)
             ict          == GetIdealCycleTimeOf(r, asset_id)
             performance  == PerformanceOf(total_count, ict.ret, runtime)
             quality      == QualityOf(good_count, total_count)
             oee          == OeeOf(availability, performance, quality)
         IN  [result |-> [kind         |-> "ok",
                          asset_id     |-> asset_id,
                          line_id      |-> row.line_id,
                          oee          |-> Cap(oee),
                          availability |-> Cap(availability),
                          performance  |-> Cap(performance),
                          quality      |-> Cap(quality),
                          runtime      |-> runtime,
                          downtime     |-> downtime,
                          total_count  |-> total_count,
                          good_count   |-> good_count,
                          reject_count |-> reject_count],
              redis  |-> ict.redis, wrote |-> ict.wrote]

-----------------------------------------------------------------------------
(* SpecOee: one call of calculate_oee *)

\* minutes of runtime summed over the window; a window is 60 minutes long,
\* empty or reversed
RuntimeSums == {Null, Some(0), Some(30), Some(60), Some(90), Some(-30)}
DowntimeSums == {Null, Some(5)}
GoodSums == {Null, Some(0), Some(45), Some(90)}
RejectSums == {Null, Some(0), Some(10)}
\* start_time and end_time in seconds: a window of an hour, an empty window
\* and a reversed one
Windows == { [start_time |-> 3600, end_time |-> 7200],
             [start_time |-> 3600, end_time |-> 3600],
             [start_time |-> 3600, end_time |-> 0] }

OeeRows ==
    [asset_id : {"a1"}, line_id : {"l1"}, total_runtime : RuntimeSums,
     total_downtime : DowntimeSums, total_good : GoodSums,
     total_reject : RejectSums]

InitOee ==
    /\ AnalysesIdle
    /\ \E asset \in Assets, w \in Windows :
       \E data \in {Null} \cup {Some([row EXCEPT !.asset_id = asset]) : row \in OeeRows} :
          oee_req = [kind |-> "request", asset_id |-> asset,
                     start_time |-> w.start_time, end_time |-> w.end_time,
                     data |-> data]
    /\ oee_result = Pending
    /\ redis \in CacheContents
    /\ lookups = [start |-> redis, calls |-> <<>>]
    /\ setex_log = <<>>
    /\ ca_args = Idle /\ ca_result = Idle /\ ca_prev = Idle
    /\ recent_data = <<>> /\ baselines = <<>> /\ detected = Idle
    /\ anomalies = <<>> /\ alerts = Idle
    /\ losses = <<>> /\ loss_result = Idle

CalculateOee ==
    /\ UNCHANGED analysis_vars
    /\ oee_result = Pending
    /\ LET out == CalculateOeeOf(oee_req.asset_id, oee_req.start_time,
                                 oee_req.end_time, oee_req.data, redis)
       IN  /\ oee_result' = out.result
           /\ redis' = out.redis
           /\ setex_log' = IF out.wrote
                           THEN Append(setex_log, SetexCall(redis, oee_req.asset_id, 0))
                           ELSE setex_log
    /\ UNCHANGED <<oee_req, lookups>>
    /\ UNCHANGED <<ca_args, ca_result, ca_prev, recent_data, baselines, detected,
                   anomalies, alerts, losses, loss_result>>

NextOee == CalculateOee

SpecOee == InitOee /\ [][NextOee]_vars

(* Claims C2, C3 *)

InPercentRange(x) == x[2] > 0 /\ 0 <= x[1] /\ x[1] <= 100 * x[2]

\* C2: whenever the query gives a row, whatever the sums (NULL and zero
\* included), the window (empty and reversed included) and the cached ideal
\* cycle time, the call returns, and the returned availability, performance,
\* quality and oee each lie within [0, 100].
C2_PercentagesCapped ==
    (oee_result # Pending /\ oee_req.data # Null) =>
        /\ oee_result.kind = "ok"
        /\ InPercentRange(oee_result.availability)
        /\ InPercentRange(oee_result.performance)
        /\ InPercentRange(oee_result.quality)
        /\ InPercentRange(oee_result.oee)

\* every cap at work in one call: runtime beyond the window (availability
\* capped from 150), more units than the ideal cycle time allows (performance
\* capped), the raw product over 100 (oee capped)
C2_Witness ==
    /\ oee_result # Pending /\ oee_result.kind = "ok"
    /\ oee_req.data # Null
    /\ oee_req.data[1].total_runtime = Some(90)
    /\ oee_req.data[1].total_good = Some(90)
    /\ oee_req.data[1].total_reject = Some(10)
    /\ oee_req.end_time = 7200
    /\ FEq(oee_result.availability, FInt(100))
    /\ FEq(oee_result.performance, FInt(100))
    /\ FEq(oee_result.oee, FInt(100))
    /\ FEq(oee_result.quality, FInt(90))

\* a NULL-or-zero summed runtime (total_count likewise)
IsZeroSum(x) == x = Null \/ x = Some(0)

\* C3: the call raises the no-data ValueError exactly when the query gives no
\* row; with a row whose summed runtime is zero or NULL it returns
\* availability = performance = oee = 0, and with a zero total_count it
\* returns quality = 0.
C3_NoDataOnlyWithoutRow ==
    oee_result # Pending =>
        /\ oee_result.kind = "raised" <=> oee_req.data = Null
        /\ oee_result.kind = "raised" => oee_result.error = "ValueError"
        /\ (oee_req.data # Null /\ IsZeroSum(oee_req.data[1].total_runtime)) =>
              /\ oee_result.kind = "ok"
              /\ FEq(oee_result.availability, FZero)
              /\ FEq(oee_result.performance, FZero)
              /\ FEq(oee_result.oee, FZero)
        /\ (/\ oee_req.data # Null
            /\ IsZeroSum(oee_req.data[1].total_good)
            /\ IsZeroSum(oee_req.data[1].total_reject)) =>
              /\ oee_result.kind = "ok"
              /\ oee_result.total_count = 0
              /\ FEq(oee_result.quality, FZero)

\* a row with units counted but a NULL summed runtime: returned, all zero but
\* quality
C3_Witness ==
    /\ oee_result # Pending /\ oee_result.kind = "ok"
    /\ oee_req.data # Null
    /\ oee_req.data[1].total_runtime = Null
    /\ oee_req.data[1].total_good = Some(90)
    /\ oee_req.end_time = 7200
    /\ FEq(oee_result.oee, FZero)
    /\ FEq(oee_result.quality, FInt(100))

-----------------------------------------------------------------------------
(* OEECalculator.analyze_losses *)

FAdd(x, y) == Frac(x[1] * y[2] + y[1] * x[2], x[2] * y[2])

\* round(x, 2) for x >= 0, in hundredths: the nearest hundredth, a tie going
\* to the even one
Round2(x) ==
    LET n == x[1] * 100
        q == n \div x[2]
        r == n % x[2]
    IN  IF 2 * r < x[2] THEN q
        ELSE IF 2 * r > x[2] THEN q + 1
        ELSE IF q % 2 = 0 THEN q ELSE q + 1

\* sum(loss['total_duration'] for loss in losses)
RECURSIVE SumDurations(_)
SumDurations(ls) ==
    IF ls = <<>> THEN 0 ELSE Head(ls).total_duration + SumDurations(Tail(ls))

\* (loss['total_duration'] / total_loss_time * 100) if total_loss_time > 0 else 0
PercentageOf(loss, total_loss_time) ==
    IF total_loss_time > 0 THEN Frac(loss.total_duration * 100, total_loss_time)
    ELSE FZero

\* (mutant of Accumulate: the running total is overwritten, not added to)
AccumulateOverwrite(cumulative_percentage, percentage) == percentage

\* cumulative_percentage += percentage
Accumulate(cumulative_percentage, percentage) ==
    FAdd(cumulative_percentage, percentage)

\* the first loop: one pareto entry per loss, from row i on
RECURSIVE ParetoFrom(_, _, _, _)
ParetoFrom(ls, total_loss_time, i, cumulative_percentage) ==
    IF i > Len(ls) THEN <<>>
    ELSE LET percentage == PercentageOf(ls[i], total_loss_time)
             cumulative == Accumulate(cumulative_percentage, percentage)
         IN  << [category    |-> ls[i].category,
                 subcategory |-> ls[i].subcategory,
                 reason      |-> ls[i].reason,
                 duration    |-> ls[i].total_duration,
                 impact      |-> ls[i].total_impact,
                 occurrences |-> ls[i].occurrences,
                 percentage  |-> Round2(percentage),
                 cumulative_percentage |-> Round2(cumulative)] >>
             \o ParetoFrom(ls, total_loss_time, i + 1, cumulative)

\* (mutant of ReachesEighty: strictly more than 80 is needed)
ReachesOverEighty(loss) == loss.cumulative_percentage > 8000

\* loss['cumulative_percentage'] >= 80, in hundredths
ReachesEighty(loss) == loss.cumulative_percentage >= 8000

\* the second loop: append, then break at the first entry that reaches 80
RECURSIVE VitalFewOf(_)
VitalFewOf(pareto_losses) ==
    IF pareto_losses = <<>> THEN <<>>
    ELSE IF ReachesEighty(Head(pareto_losses)) THEN <<Head(pareto_losses)>>
    ELSE <<Head(pareto_losses)>> \o VitalFewOf(Tail(pareto_losses))

\* analyze_losses with fetchall() giving ls.  The period and the
\* recommendations derived from vital_few are left out of the result.
AnalyzeLossesOf(ls) ==
    IF ls = <<>>
    THEN [kind |-> "message", message |-> "No losses found for the period"]
    ELSE LET total_loss_time == SumDurations(ls)
             pareto_losses   == ParetoFrom(ls, total_loss_time, 1, FZero)
         IN  [kind            |-> "analysis",
              total_loss_time |-> total_loss_time,
              total_losses    |-> Len(ls),
              pareto_analysis |-> pareto_losses,
              vital_few       |-> VitalFewOf(pareto_losses)]

-----------------------------------------------------------------------------
(* SpecLoss: one call of analyze_losses *)

MaxLosses == 4
MaxDuration == 6

\* rows of the losses query: one per (category, subcategory, reason), ORDER
\* BY total_duration DESC; row i is reason r<i>
LossRowLists ==
    { [i \in DOMAIN ds |->
          [category |-> "AVAILABILITY", subcategory |-> "BREAKDOWN",
           reason |-> "r" \o ToString(i), total_duration |-> ds[i],
           total_impact |-> ds[i], occurrences |-> 1]]
      : ds \in {d \in SeqsBetween(0..MaxDuration, 0, MaxLosses) :
                  \A i \in DOMAIN d : i > 1 => d[i - 1] >= d[i]} }

InitLoss ==
    /\ AnalysesIdle
    /\ losses \in LossRowLists
    /\ loss_result = Pending
    /\ ca_args = Idle /\ ca_result = Idle /\ ca_prev = Idle
    /\ recent_data = <<>> /\ baselines = <<>> /\ detected = Idle
    /\ anomalies = <<>> /\ alerts = Idle
    /\ oee_req = Idle /\ oee_result = Idle
    /\ redis = <<>> /\ lookups = <<>> /\ setex_log = <<>>

AnalyzeLosses ==
    /\ UNCHANGED analysis_vars
    /\ loss_result = Pending
    /\ loss_result' = AnalyzeLossesOf(losses)
    /\ UNCHANGED losses
    /\ UNCHANGED <<ca_args, ca_result, ca_prev, recent_data, baselines, detected,
                   anomalies, alerts, oee_req, oee_result, redis, lookups,
                   setex_log>>

NextLoss == AnalyzeLosses

SpecLoss == InitLoss /\ [][NextLoss]_vars

(* Claims C5, C6 *)

CumulativeNonDecreasing ==
    \A i, j \in DOMAIN loss_result.pareto_analysis :
        i <= j => loss_result.pareto_analysis[i].cumulative_percentage
                     <= loss_result.pareto_analysis[j].cumulative_percentage

LastCumulative ==
    loss_result.pareto_analysis[Len(loss_result.pareto_analysis)].cumulative_percentage

\* C5 as stated: for every non-empty list of loss rows ordered by duration
\* descending, cumulative_percentage is non-decreasing along pareto_analysis
\* and that of the last entry equals 100 up to rounding (a hundredth).
C5_Original ==
    (loss_result # Pending /\ losses # <<>>) =>
        /\ loss_result.kind = "analysis"
        /\ Len(loss_result.pareto_analysis) = Len(losses)
        /\ CumulativeNonDecreasing
        /\ Abs(LastCumulative - 10000) <= 1

\* C5 as amended: for every non-empty list of loss rows ordered by duration
\* descending, cumulative_percentage is non-decreasing along pareto_analysis;
\* that of the last entry equals 100 up to rounding when the total duration is
\* positive, and every cumulative_percentage is 0 when the total duration is 0.
C5_CumulativeTo100 ==
    (loss_result # Pending /\ losses # <<>>) =>
        /\ loss_result.kind = "analysis"
        /\ Len(loss_result.pareto_analysis) = Len(losses)
        /\ CumulativeNonDecreasing
        /\ loss_result.total_loss_time > 0 => Abs(LastCumulative - 10000) <= 1
        /\ loss_result.total_loss_time = 0 =>
              \A i \in DOMAIN loss_result.pareto_analysis :
                  loss_result.pareto_analysis[i].cumulative_percentage = 0

\* three equal losses: 33.33, 66.67, 100.0
C5_Witness ==
    /\ loss_result # Pending /\ loss_result.kind = "analysis"
    /\ Len(losses) = 3
    /\ loss_result.total_loss_time = 9
    /\ loss_result.pareto_analysis[1].cumulative_percentage = 3333
    /\ loss_result.pareto_analysis[2].cumulative_percentage = 6667
    /\ loss_result.pareto_analysis[3].cumulative_percentage = 10000

\* positions of pareto_analysis whose cumulative_percentage is at least 80
AtLeastEighty ==
    {i \in DOMAIN loss_result.pareto_analysis :
        loss_result.pareto_analysis[i].cumulative_percentage >= 8000}

\* C6: for every non-empty ranked list, vital_few is the prefix of
\* pareto_analysis that ends with the first entry whose cumulative_percentage
\* is at least 80, and all of pareto_analysis when no entry reaches 80; it is
\* never empty.
C6_VitalFewPrefix ==
    (loss_result # Pending /\ losses # <<>>) =>
        LET pa   == loss_result.pareto_analysis
            last == IF AtLeastEighty = {} THEN Len(pa)
                    ELSE CHOOSE i \in AtLeastEighty : \A j \in AtLeastEighty : i <= j
        IN  /\ loss_result.vital_few # <<>>
            /\ loss_result.vital_few = SubSeq(pa, 1, last)

\* 3 + 1 + 1: the first entry is at 60, the second reaches exactly 80 and
\* ends vital_few, the third is left out
C6_Witness ==
    /\ loss_result # Pending /\ loss_result.kind = "analysis"
    /\ Len(losses) = 3
    /\ loss_result.pareto_analysis[2].cumulative_percentage = 8000
    /\ Len(loss_result.vital_few) = 2

-----------------------------------------------------------------------------
(* Claim C15, under SpecOee *)

\* C15: in every record calculate_oee returns, oee equals availability x
\* performance x quality / 10000 of the returned (capped) components, and so
\* oee exceeds none of the three returned components.
C15_OeeFromReturnedComponents ==
    (oee_result # Pending /\ oee_result.kind = "ok") =>
        /\ FEq(oee_result.oee,
               FDivInt(FMul(FMul(oee_result.availability, oee_result.performance),
                            oee_result.quality), 10000))
        /\ ~FLess(oee_result.availability, oee_result.oee)
        /\ ~FLess(oee_result.performance, oee_result.oee)
        /\ ~FLess(oee_result.quality, oee_result.oee)

-----------------------------------------------------------------------------
(* AnomalyDetector.detect_pattern_anomalies *)

\* len(data) < 10
MinPatternRows == 10

\* len(data) >= 20, and the 10 rows of head(10) and tail(10)
MinTrendRows == 20
TrendWindow == 10

\* (mutant of TooFewPatternRows: ten rows are still too few)
TooFewPatternRowsAtTen(data) == Len(data) = 0 \/ Len(data) <= MinPatternRows

\* data.empty or len(data) < 10
TooFewPatternRows(data) == Len(data) = 0 \/ Len(data) < MinPatternRows

\* data['oee'].diff(): NaN (Null) for the first row, else the row's oee minus
\* the previous row's
OeeDiff(data, i) == IF i = 1 THEN Null ELSE Some(data[i].oee - data[i - 1].oee)

\* (mutant of IsSuddenDrop: a drop of exactly 20 counts)
IsSuddenDropAtTwenty(diff) == diff # Null /\ diff[1] <= -20

\* oee_diff < -20; a comparison with NaN is false
IsSuddenDrop(diff) == diff # Null /\ diff[1] < -20

\* data['downtime'] > data['runtime'] * 0.3
IsHighDowntime(row) == 10 * row.downtime > 3 * row.runtime

\* data['reject_count'] over rows lo..hi, summed
RECURSIVE SumRejects(_, _, _)
SumRejects(data, lo, hi) ==
    IF lo > hi THEN 0 ELSE data[lo].reject_count + SumRejects(data, lo + 1, hi)

\* data['reject_count'].tail(10).mean()
RecentRejects(data) ==
    Frac(SumRejects(data, Len(data) - TrendWindow + 1, Len(data)), TrendWindow)

\* data['reject_count'].head(10).mean()
HistoricalRejects(data) == Frac(SumRejects(data, 1, TrendWindow), TrendWindow)

\* recent_rejects > historical_rejects * 1.5
IsRejectTrend(data) ==
    FLess(FMul(HistoricalRejects(data), Frac(3, 2)), RecentRejects(data))

\* the descriptions of the events repeat their timestamp and are left out
SuddenDropEvent(row) ==
    [type |-> "SUDDEN_DROP", metric |-> "OEE",
     timestamp |-> IsoFormat(row.timestamp), value |-> row.oee,
     severity |-> "HIGH"]

TrendEvent(end_time) ==
    [type |-> "TREND", metric |-> "Quality", timestamp |-> IsoFormat(end_time),
     severity |-> "MEDIUM"]

ThresholdBreachEvent(row) ==
    [type |-> "THRESHOLD_BREACH", metric |-> "Downtime",
     timestamp |-> IsoFormat(row.timestamp), value |-> row.downtime,
     severity |-> "HIGH"]

\* for _, row in sudden_drops.iterrows(): one event per row kept, from row i on
RECURSIVE SuddenDropsFrom(_, _)
SuddenDropsFrom(data, i) ==
    IF i > Len(data) THEN <<>>
    ELSE (IF IsSuddenDrop(OeeDiff(data, i)) THEN <<SuddenDropEvent(data[i])>>
          ELSE <<>>) \o SuddenDropsFrom(data, i + 1)

\* for _, row in high_downtime.iterrows(): one event per row kept, from row i on
RECURSIVE BreachesFrom(_, _)
BreachesFrom(data, i) ==
    IF i > Len(data) THEN <<>>
    ELSE (IF IsHighDowntime(data[i]) THEN <<ThresholdBreachEvent(data[i])>>
          ELSE <<>>) \o BreachesFrom(data, i + 1)

\* detect_pattern_anomalies with fetchall() giving data, called at end_time
DetectPatternAnomaliesOf(data, end_time) ==
    IF TooFewPatternRows(data) THEN [kind |-> "ok", list |-> <<>>]
    ELSE LET trend == IF Len(data) >= MinTrendRows /\ IsRejectTrend(data)
                      THEN <<TrendEvent(end_time)>> ELSE <<>>
         IN  [kind |-> "ok",
              list |-> SuddenDropsFrom(data, 1) \o trend \o BreachesFrom(data, 1)]

\* The telemetry rows of a window, ORDER BY timestamp (row i carries
\* timestamp i): steady rows (oee 80, runtime 60, downtime 5, 2 rejects),
\* the last ten with a reject count of their own, and up to two rows with
\* another oee and downtime.
MaxPatternRows == 21

PatternMods ==
    { [oee |-> BaseMean - 21, downtime |-> 5],
      [oee |-> BaseMean - 20, downtime |-> 5],
      [oee |-> BaseMean, downtime |-> 18],
      [oee |-> BaseMean, downtime |-> 19],
      [oee |-> BaseMean - 30, downtime |-> 30] }

PatternRecentRejects == {2, 3, 4}

PatternRowsOf(n, mods, recent) ==
    [i \in 1..n |->
        [timestamp    |-> i,
         oee          |-> IF i \in DOMAIN mods THEN mods[i].oee ELSE BaseMean,
         runtime      |-> 60,
         downtime     |-> IF i \in DOMAIN mods THEN mods[i].downtime ELSE 5,
         good_count   |-> 50,
         reject_count |-> IF i > n - TrendWindow THEN recent ELSE 2]]

\* the rows that may differ from the ordinary row: the first and the last three
PatternPositions(n) == {1, n - 2, n - 1, n} \cap (1..n)

PatternInputs ==
    UNION { { PatternRowsOf(n, mods, recent) :
                mods \in UNION {[P -> PatternMods] :
                                  P \in {{p, q} \cap PatternPositions(n) :
                                            p \in 0..n, q \in 0..n}},
                recent \in PatternRecentRejects }
            : n \in 0..MaxPatternRows }

-----------------------------------------------------------------------------
(* AnomalyDetector.detect_multivariate_anomalies *)

\* len(data) < 30
MinMultivariateRows == 30

\* m_distance > 15.09 and m_distance > 20, distances in hundredths
DistanceThreshold == 1509
HighDistance == 2000

\* data.empty or len(data) < 30
TooFewMultivariateRows(data) == Len(data) = 0 \/ Len(data) < MinMultivariateRows

\* 'HIGH' if m_distance > 20 else 'MEDIUM'
DistanceSeverity(m_distance) == IF m_distance > HighDistance THEN "HIGH" ELSE "MEDIUM"

\* the dict appended for a row; the description is a fixed text and left out
MultivariateEvent(row, m_distance) ==
    [timestamp  |-> IsoFormat(row.timestamp),
     asset_id   |-> row.asset_id,
     type       |-> "MULTIVARIATE",
     distance   |-> m_distance,
     severity   |-> DistanceSeverity(m_distance),
     parameters |-> [oee         |-> row.oee,
                     temperature |-> row.temperature,
                     pressure    |-> row.pressure,
                     vibration   |-> row.vibration]]

\* for idx, row in data.iterrows(): the rows beyond the threshold, in order,
\* one dict each
MultivariateOver(data, m_distance) ==
    LET IsAnomalous(i) == m_distance[i] > DistanceThreshold
        kept == SelectSeq([i \in 1..Len(data) |-> i], IsAnomalous)
    IN  [k \in 1..Len(kept) |-> MultivariateEvent(data[kept[k]], m_distance[kept[k]])]

\* detect_multivariate_anomalies with fetchall() giving data.  The linear
\* algebra is numpy's: m_distance[i] is the value np.sqrt(diff.T @ inv_cov @
\* diff) takes for row i, and pinv_raises tells whether np.linalg.pinv raised.
DetectMultivariateAnomaliesOf(data, m_distance, pinv_raises) ==
    IF TooFewMultivariateRows(data) THEN [kind |-> "ok", list |-> <<>>]
    ELSE IF pinv_raises THEN [kind |-> "ok", list |-> <<>>]
    ELSE [kind |-> "ok", list |-> MultivariateOver(data, m_distance)]

\* The rows of a window: ordinary rows at distance 1.00, and up to two rows
\* (the first and the last) at a distance of their own, with current present
\* or NULL.  A Mahalanobis distance d under the sample covariance of n rows
\* satisfies d^2 <= (n - 1)^2 / n, so a row's distance is one the row count
\* allows: 15.10 from 231 rows on, 20.01 from 403 on.  The row counts are
\* those around the minimum and around these two sizes.
MaxMultivariateRows == 403

MultivariateRowCounts == {0, 1, 29, 30, 31, 230, 231, 402, MaxMultivariateRows}

NotableDistances == {400, 1509, 1510, 2000, 2001}

DistanceAllowed(d, n) == n > 0 /\ d * d * n <= (n - 1) * (n - 1) * 10000

NotableRows == [m_distance : NotableDistances, current : {Null, Some(12)}]

MultivariateRowsOf(n, first, last) ==
    [i \in 1..n |->
        [timestamp   |-> i,
         asset_id    |-> IF i % 2 = 0 THEN "a2" ELSE "a1",
         oee         |-> Some(BaseMean),
         temperature |-> 70,
         pressure    |-> 5,
         vibration   |-> 2,
         current     |-> IF i = 1 /\ first # Null THEN first[1].current
                         ELSE IF i = n /\ last # Null THEN last[1].current
                         ELSE Some(10)]]

MultivariateDistancesOf(n, first, last) ==
    [i \in 1..n |->
        IF i = 1 /\ first # Null THEN first[1].m_distance
        ELSE IF i = n /\ last # Null THEN last[1].m_distance
        ELSE 100]

MultivariateInputs ==
    UNION { { [data        |-> MultivariateRowsOf(n, first, last),
               m_distance  |-> MultivariateDistancesOf(n, first, last),
               pinv_raises |-> raises] :
                first \in {Null} \cup {Some(r) : r \in {r \in NotableRows :
                                          n >= 2 /\ DistanceAllowed(r.m_distance, n)}},
                last \in {Null} \cup {Some(r) : r \in {r \in NotableRows :
                                          n >= 2 /\ DistanceAllowed(r.m_distance, n)}},
                raises \in BOOLEAN }
            : n \in MultivariateRowCounts }

-----------------------------------------------------------------------------
(* OEECalculator.predict_oee_trend *)

FNeg(x) == <<-x[1], x[2]>>
FSub(x, y) == FAdd(x, FNeg(y))
\* x / y for y # 0
FDiv(x, y) ==
    IF y[1] > 0 THEN FMul(x, <<y[2], y[1]>>) ELSE FMul(x, <<-y[2], -y[1]>>)

\* len(data) < 7
MinTrendDays == 7

\* len(data) < 7
TooFewDays(data) == Len(data) < MinTrendDays

\* np.mean / np.sum of f(1), ..., f(n), the terms as fractions
RECURSIVE FSum(_, _)
FSum(terms, i) == IF i > Len(terms) THEN FZero ELSE FAdd(terms[i], FSum(terms, i + 1))

FMean(terms) == FDiv(FSum(terms, 1), FInt(Len(terms)))

\* (mutant of IsImproving: a slope of exactly 0.1 counts as improving)
IsImprovingAtTenth(slope) == ~FLess(slope, Frac(1, 10))

\* slope > 0.1
IsImproving(slope) == FLess(Frac(1, 10), slope)

\* slope < -0.1
IsDeclining(slope) == FLess(slope, Frac(-1, 10))

TrendOf(slope) ==
    IF IsImproving(slope) THEN "IMPROVING"
    ELSE IF IsDeclining(slope) THEN "DECLINING"
    ELSE "STABLE"

\* date.isoformat() of day d of the month, d >= 10
IsoDay(d) == "2026-01-" \o ToString(d)

\* predict_oee_trend with fetchall() giving data, called on day end_date.
\* The floats are exact fractions here, so the fit carries no rounding error.
\* trend_strength (R squared) is reported beside the fit and left out.
PredictOeeTrendOf(data, days_forecast, end_date) ==
    IF TooFewDays(data)
    THEN [kind |-> "error", error |-> "Insufficient data for trend analysis"]
    ELSE LET n      == Len(data)
             x      == [i \in 1..n |-> FInt(i - 1)]
             y      == [i \in 1..n |-> data[i].daily_oee]
             x_mean == FMean(x)
             y_mean == FMean(y)
             numerator   == FSum([i \in 1..n |->
                                FMul(FSub(x[i], x_mean), FSub(y[i], y_mean))], 1)
             denominator == FSum([i \in 1..n |->
                                FMul(FSub(x[i], x_mean), FSub(x[i], x_mean))], 1)
             slope     == IF ~FEq(denominator, FZero)
                          THEN FDiv(numerator, denominator) ELSE FZero
             intercept == FSub(y_mean, FMul(slope, x_mean))
             forecast_values ==
                 [i \in 1..days_forecast |->
                     FAdd(FMul(slope, FInt(n + i - 1)), intercept)]
             forecast_dates == [i \in 1..days_forecast |-> end_date + i]
         IN  [kind               |-> "forecast",
              historical_average |-> y_mean,
              trend              |-> TrendOf(slope),
              daily_change       |-> slope,
              forecast           |->
                  [i \in 1..days_forecast |->
                      [date          |-> IsoDay(forecast_dates[i]),
                       predicted_oee |-> Cap(forecast_values[i])]]]

\* The daily averages of a history window, ORDER BY date: a line from a
\* first value by a daily step (tenths of a point), one day possibly half a
\* point off the line.
MaxDays == 9
MaxForecast == 3

TrendFirstValues == {5, 800, 995}
TrendSteps == {-2, -1, 0, 1, 2}

TrendRowsOf(n, first, step, off) ==
    [i \in 1..n |->
        [date      |-> i,
         daily_oee |-> Frac(first + step * (i - 1) + (IF i = off THEN 5 ELSE 0), 10)]]

TrendInputs ==
    UNION { { [data          |-> TrendRowsOf(n, first, step, off),
               days_forecast |-> f,
               end_date      |-> 10] :
                first \in TrendFirstValues, step \in TrendSteps,
                off \in 0..n, f \in 0..MaxForecast }
            : n \in 0..MaxDays }

-----------------------------------------------------------------------------
(* SpecAnalyses: one call of detect_pattern_anomalies, of                   *)
(* detect_multivariate_anomalies or of predict_oee_trend                    *)

OthersIdleAnalyses ==
    /\ ca_args = Idle /\ ca_result = Idle /\ ca_prev = Idle
    /\ recent_data = <<>> /\ baselines = <<>> /\ detected = Idle
    /\ anomalies = <<>> /\ alerts = Idle
    /\ oee_req = Idle /\ oee_result = Idle
    /\ redis = <<>> /\ lookups = <<>> /\ setex_log = <<>>
    /\ losses = <<>> /\ loss_result = Idle

other_vars == <<ca_args, ca_result, ca_prev, recent_data, baselines, detected,
                anomalies, alerts, oee_req, oee_result, redis, lookups,
                setex_log, losses, loss_result>>

InitPattern ==
    /\ \E data \in PatternInputs :
          pattern_req = [kind |-> "request", data |-> data, end_time |-> 59]
    /\ pattern_result = Pending
    /\ mv_req = Idle /\ mv_result = Idle
    /\ trend_req = Idle /\ trend_result = Idle

InitMultivariate ==
    /\ \E in \in MultivariateInputs :
          mv_req = [kind |-> "request", data |-> in.data,
                    m_distance |-> in.m_distance, pinv_raises |-> in.pinv_raises]
    /\ mv_result = Pending
    /\ pattern_req = Idle /\ pattern_result = Idle
    /\ trend_req = Idle /\ trend_result = Idle

InitTrend ==
    /\ \E in \in TrendInputs :
          trend_req = [kind |-> "request", data |-> in.data,
                       days_forecast |-> in.days_forecast,
                       end_date |-> in.end_date]
    /\ trend_result = Pending
    /\ pattern_req = Idle /\ pattern_result = Idle
    /\ mv_req = Idle /\ mv_result = Idle

InitAnalyses ==
    /\ OthersIdleAnalyses
    /\ (InitPattern \/ InitMultivariate \/ InitTrend)

DetectPatternAnomalies ==
    /\ pattern_result = Pending
    /\ pattern_result' = DetectPatternAnomaliesOf(pattern_req.data, pattern_req.end_time)
    /\ UNCHANGED <<pattern_req, mv_req, mv_result, trend_req, trend_result>>
    /\ UNCHANGED other_vars

DetectMultivariateAnomalies ==
    /\ mv_result = Pending
    /\ mv_result' = DetectMultivariateAnomaliesOf(mv_req.data, mv_req.m_distance,
                                                  mv_req.pinv_raises)
    /\ UNCHANGED <<pattern_req, pattern_result, mv_req, trend_req, trend_result>>
    /\ UNCHANGED other_vars

PredictOeeTrend ==
    /\ trend_result = Pending
    /\ trend_result' = PredictOeeTrendOf(trend_req.data, trend_req.days_forecast,
                                         trend_req.end_date)
    /\ UNCHANGED <<pattern_req, pattern_result, mv_req, mv_result, trend_req>>
    /\ UNCHANGED other_vars

NextAnalyses ==
    DetectPatternAnomalies \/ DetectMultivariateAnomalies \/ PredictOeeTrend

SpecAnalyses == InitAnalyses /\ [][NextAnalyses]_vars

-----------------------------------------------------------------------------
(* Claims on SpecAnalyses *)

PatternDone == pattern_result # Idle /\ pattern_result # Pending
MultivariateDone == mv_result # Idle /\ mv_result # Pending
TrendDone == trend_result # Idle /\ trend_result # Pending

EmptyList == [kind |-> "ok", list |-> <<>>]

\* C11: below their minimum sample counts the analyses answer softly:
\* detect_pattern_anomalies gives [] for fewer than 10 rows (0 included),
\* detect_multivariate_anomalies gives [] for fewer than 30 rows, and
\* predict_oee_trend gives the insufficient-data payload for fewer than 7
\* daily rows; from the minimum on the analysis is carried out (a row with
\* excessive downtime is reported, a row beyond the distance threshold is
\* reported unless the inversion failed, a forecast is returned).
C11_SoftBelowMinimum ==
    /\ PatternDone =>
          /\ Len(pattern_req.data) < 10 => pattern_result = EmptyList
          /\ (Len(pattern_req.data) >= 10
                /\ \E i \in 1..Len(pattern_req.data) :
                      10 * pattern_req.data[i].downtime > 3 * pattern_req.data[i].runtime)
             => pattern_result.kind = "ok" /\ pattern_result.list # <<>>
    /\ MultivariateDone =>
          /\ Len(mv_req.data) < 30 => mv_result = EmptyList
          /\ (Len(mv_req.data) >= 30 /\ ~mv_req.pinv_raises
                /\ \E i \in 1..Len(mv_req.data) : mv_req.m_distance[i] > 1509)
             => mv_result.kind = "ok" /\ mv_result.list # <<>>
    /\ TrendDone =>
          /\ Len(trend_req.data) < 7 =>
                trend_result = [kind |-> "error",
                                error |-> "Insufficient data for trend analysis"]
          /\ Len(trend_req.data) >= 7 => trend_result.kind = "forecast"

\* nine rows, one of them with excessive downtime, and nothing is reported
C11_Witness ==
    /\ PatternDone
    /\ Len(pattern_req.data) = 9
    /\ \E i \in 1..9 : pattern_req.data[i].downtime = 30
    /\ pattern_result = EmptyList

\* the reject counts of the k rows ending at row last, summed
RECURSIVE RejectsOver(_, _, _)
RejectsOver(data, last, k) ==
    IF k = 0 THEN 0 ELSE RejectsOver(data, last - 1, k - 1) + data[last].reject_count

DropRows(data) == {i \in 2..Len(data) : data[i].oee - data[i - 1].oee < -20}
BreachRows(data) == {i \in 1..Len(data) : 10 * data[i].downtime > 3 * data[i].runtime}
RejectsRising(data) ==
    /\ Len(data) >= 20
    /\ 2 * RejectsOver(data, Len(data), 10) > 3 * RejectsOver(data, 10, 10)

EventsOfType(list, type) == {k \in 1..Len(list) : list[k].type = type}

\* C12: for n >= 10 rows the result of detect_pattern_anomalies holds exactly
\* one HIGH SUDDEN_DROP event per row (not the first) whose oee is more than 20
\* below the previous row's, one HIGH THRESHOLD_BREACH event per row with
\* downtime > 0.3 x runtime, one MEDIUM TREND event iff n >= 20 and the last
\* ten rows' mean reject_count exceeds 1.5 times the first ten rows', and
\* nothing else.
C12_PatternEvents ==
    (PatternDone /\ Len(pattern_req.data) >= 10) =>
        LET data == pattern_req.data
            list == pattern_result.list
            drops    == EventsOfType(list, "SUDDEN_DROP")
            breaches == EventsOfType(list, "THRESHOLD_BREACH")
            trends   == EventsOfType(list, "TREND")
        IN  /\ pattern_result.kind = "ok"
            /\ Cardinality(drops) = Cardinality(DropRows(data))
            /\ \A i \in DropRows(data) : \E k \in drops :
                  /\ list[k].timestamp = IsoFormat(data[i].timestamp)
                  /\ list[k].value = data[i].oee
                  /\ list[k].severity = "HIGH"
            /\ Cardinality(breaches) = Cardinality(BreachRows(data))
            /\ \A i \in BreachRows(data) : \E k \in breaches :
                  /\ list[k].timestamp = IsoFormat(data[i].timestamp)
                  /\ list[k].value = data[i].downtime
                  /\ list[k].severity = "HIGH"
            /\ Cardinality(trends) = (IF RejectsRising(data) THEN 1 ELSE 0)
            /\ \A k \in trends : list[k].severity = "MEDIUM"
            /\ Len(list) = Cardinality(drops) + Cardinality(breaches) + Cardinality(trends)

\* twenty rows with rising rejects; the nineteenth drops by 21 points, the
\* last has excessive downtime: one SUDDEN_DROP, one TREND and one
\* THRESHOLD_BREACH
C12_Witness ==
    /\ PatternDone
    /\ Len(pattern_req.data) = 20
    /\ pattern_req.data[19].oee = 59 /\ pattern_req.data[19].downtime = 5
    /\ pattern_req.data[20].oee = 50 /\ pattern_req.data[20].downtime = 30
    /\ RejectsRising(pattern_req.data)
    /\ [k \in 1..Len(pattern_result.list) |-> pattern_result.list[k].type]
          = <<"SUDDEN_DROP", "TREND", "THRESHOLD_BREACH">>

\* C13: every observation detect_multivariate_anomalies emits has a distance
\* above 15.09, is HIGH if its distance is above 20 and MEDIUM otherwise, and
\* carries the row's original values of all five features (oee, temperature,
\* pressure, vibration and current) in its parameters.
C13_FiveFeatureSnapshot ==
    MultivariateDone =>
        \A k \in 1..Len(mv_result.list) :
            LET e == mv_result.list[k]
            IN  /\ e.distance > 1509
                /\ e.severity = (IF e.distance > 2000 THEN "HIGH" ELSE "MEDIUM")
                /\ \E i \in 1..Len(mv_req.data) :
                      /\ e.timestamp = IsoFormat(mv_req.data[i].timestamp)
                      /\ DOMAIN e.parameters =
                            {"oee", "temperature", "pressure", "vibration", "current"}
                      /\ \A f \in DOMAIN e.parameters :
                            e.parameters[f] = mv_req.data[i][f]

\* C14: for at least 7 daily rows predict_oee_trend reports IMPROVING exactly
\* when the fitted slope is above 0.1, DECLINING exactly when it is below -0.1
\* and STABLE otherwise (so at exactly 0.1 and -0.1), and returns
\* days_forecast entries with predicted_oee in [0, 100].
C14_TrendAndForecast ==
    (TrendDone /\ Len(trend_req.data) >= 7) =>
        LET slope == trend_result.daily_change
        IN  /\ trend_result.kind = "forecast"
            /\ trend_result.trend = "IMPROVING" <=> FLess(Frac(1, 10), slope)
            /\ trend_result.trend = "DECLINING" <=> FLess(slope, Frac(-1, 10))
            /\ trend_result.trend \in {"IMPROVING", "DECLINING", "STABLE"}
            /\ Len(trend_result.forecast) = trend_req.days_forecast
            /\ \A i \in 1..Len(trend_result.forecast) :
                  InPercentRange(trend_result.forecast[i].predicted_oee)

\* nine days rising by 0.1 a day from 99.5: the slope is exactly 0.1, the
\* trend STABLE, and the three forecast values are cut to 100
C14_Witness ==
    /\ TrendDone
    /\ Len(trend_req.data) = 9
    /\ trend_req.data[1].daily_oee = Frac(995, 10)
    /\ FEq(trend_result.daily_change, Frac(1, 10))
    /\ trend_result.trend = "STABLE"
    /\ Len(trend_result.forecast) = 3
    /\ \A i \in 1..3 : FEq(trend_result.forecast[i].predicted_oee, FInt(100))

=============================================================================
